---- MODULE Spec2Model ----
(***************************************************************************)
(* Model of the stdio MCP server of local_mcp: the SQLite store built by   *)
(* create_db.py, the five handlers of db_utils.py and the handlers and     *)
(* runner of server.py.                                                    *)
(*                                                                         *)
(* Python values: a str built by an f-string is the sequence of its parts; *)
(* a dict is a record, a list a sequence, and a handler's return value is  *)
(* tagged with its Python type ([type |-> "dict" | "list", v |-> ...]).    *)
(***************************************************************************)
EXTENDS Integers, Sequences, FiniteSets, TLC

(* ---------------------------- bounds ----------------------------------- *)
MaxRequests == 2      \* requests served by one process run
MaxRuns == 2          \* launches of the server process

(* ------------------------ generic helpers ------------------------------ *)
Range(s) == {s[i] : i \in 1..Len(s)}

Max(a, b) == IF a >= b THEN a ELSE b

RECURSIVE MaxId(_)
MaxId(rows) == IF rows = <<>> THEN 0 ELSE Max(Head(rows).id, MaxId(Tail(rows)))

(* ------------------------- the store ----------------------------------- *)
\* columns of each table, in declaration order
TableColumns ==
  [users |-> << [name |-> "id", type |-> "INTEGER"],
                [name |-> "username", type |-> "TEXT"],
                [name |-> "email", type |-> "TEXT"] >>,
   todos |-> << [name |-> "id", type |-> "INTEGER"],
                [name |-> "user_id", type |-> "INTEGER"],
                [name |-> "task", type |-> "TEXT"],
                [name |-> "completed", type |-> "BOOLEAN"] >>]

\* columns declared NOT NULL without a default (the id is generated)
RequiredColumns ==
  [users |-> {"username", "email"}, todos |-> {"user_id", "task"}]

dummy_users ==
  << [username |-> "user1", email |-> "user1@example.com"],
     [username |-> "user2", email |-> "user2@example.com"] >>

dummy_todos ==
  << [user_id |-> 1, task |-> "Complete MCP project", completed |-> 0],
     [user_id |-> 1, task |-> "Read about SQL injection", completed |-> 1],
     [user_id |-> 2, task |-> "Buy groceries", completed |-> 0] >>

\* the state of the database file: absent, or a file holding tables
NoDatabase ==
  [exists |-> FALSE, tables |-> <<>>,
   rows |-> [users |-> <<>>, todos |-> <<>>],
   seq |-> [users |-> 0, todos |-> 0]]

ColumnNames(t) == {TableColumns[t][i].name : i \in 1..Len(TableColumns[t])}

ColumnType(t, c) ==
  (CHOOSE col \in Range(TableColumns[t]) : col.name = c).type

HasTable(db, t) == t \in Range(db.tables) /\ t \in DOMAIN TableColumns

\* NextRowId that numbers the new row by the count of rows in the table
NextRowId_Count(db, t) == Len(db.rows[t]) + 1

\* AUTOINCREMENT: one more than the largest id the table ever held
NextRowId(db, t) == Max(db.seq[t], MaxId(db.rows[t])) + 1

(* ----------------------- SQL text and evaluation ----------------------- *)
\* A condition is the sequence of its lexical tokens; whitespace is a token.
Whitespace == {" ", "\t", "\n"}

NumOf == [n \in {"0", "1", "2", "3"} |->
            CASE n = "0" -> 0 [] n = "1" -> 1 [] n = "2" -> 2 [] n = "3" -> 3]

RECURSIVE LStrip(_)
LStrip(s) ==
  IF s # <<>> /\ Head(s) \in Whitespace THEN LStrip(Tail(s)) ELSE s

RECURSIVE RStrip(_)
RStrip(s) ==
  IF s # <<>> /\ s[Len(s)] \in Whitespace
  THEN RStrip(SubSeq(s, 1, Len(s) - 1)) ELSE s

\* str.strip()
Strip(s) == RStrip(LStrip(s))

IsSpace(tok) == tok \in Whitespace

\* the tokens the SQL parser sees
SqlTokens(s) == SelectSeq(s, LAMBDA tok : ~IsSpace(tok))

\* names that contain a single quote
QuotedNames == {"x'y"}

\* an operand of a comparison: a numeric literal or a column of table t
IsOperand(t, tok) == tok \in DOMAIN NumOf \/ tok \in ColumnNames(t)

\* "WHERE <cond>" that the parser rejects
WhereSyntaxError(cond) ==
  LET toks == SqlTokens(cond) IN
  IF Len(toks) # 3 \/ toks[2] # "=" THEN <<"syntax error">> ELSE <<>>

\* a parsed "WHERE <cond>" naming something that is no column of table t
WhereColumnError(t, cond) ==
  LET toks == SqlTokens(cond) IN
  IF ~IsOperand(t, toks[1]) THEN <<"no such column: ", toks[1]>>
  ELSE IF ~IsOperand(t, toks[3]) THEN <<"no such column: ", toks[3]>>
  ELSE <<>>

OperandIsText(t, tok) ==
  tok \notin DOMAIN NumOf /\ ColumnType(t, tok) = "TEXT"

OperandValue(r, tok) == IF tok \in DOMAIN NumOf THEN NumOf[tok] ELSE r[tok]

\* Does row r of table t satisfy a well-formed condition?
Matches(t, r, cond) ==
  LET toks == SqlTokens(cond) IN
  /\ OperandIsText(t, toks[1]) = OperandIsText(t, toks[3])
  /\ OperandValue(r, toks[1]) = OperandValue(r, toks[3])

\* result columns of a SELECT: "*", a column name, or a BLOB expression
BlobColumn == "CAST(task AS BLOB)"

SelectColumnsError(t, columns) ==
  IF columns = "*" \/ columns \in ColumnNames(t) THEN <<>>
  ELSE IF columns = BlobColumn /\ "task" \in ColumnNames(t) THEN <<>>
  ELSE <<"no such column: ", columns>>

\* dict(row) for one result row
Project(r, columns) ==
  IF columns = "*" THEN r
  ELSE IF columns = BlobColumn THEN [c \in {BlobColumn} |-> r.task]
  ELSE [c \in {columns} |-> r[c]]

\* the error sqlite3 raises when an I/O fault hits a statement
FaultText == <<"disk I/O error">>

(* --------------------------- create_db.py ------------------------------ *)
RECURSIVE SeedRows(_, _)
\* executemany: the rows get the ids first, first + 1, ...
SeedRows(dummies, first) ==
  IF dummies = <<>> THEN <<>>
  ELSE << [c \in {"id"} \cup DOMAIN Head(dummies) |->
             IF c = "id" THEN first ELSE Head(dummies)[c]] >>
       \o SeedRows(Tail(dummies), first + 1)

\* create_database that builds and seeds the tables on every start
create_database_Reseed(db) ==
  [exists |-> TRUE,
   tables |-> <<"users", "sqlite_sequence", "todos">>,
   rows |-> [users |-> SeedRows(dummy_users, 1),
             todos |-> SeedRows(dummy_todos, 1)],
   seq |-> [users |-> Len(dummy_users), todos |-> Len(dummy_todos)]]

\* create_database(): tables and seed rows only when the file was absent
create_database(db) ==
  LET db_exists == db.exists IN
  IF ~db_exists
  THEN [exists |-> TRUE,
        tables |-> <<"users", "sqlite_sequence", "todos">>,
        rows |-> [users |-> SeedRows(dummy_users, 1),
                  todos |-> SeedRows(dummy_todos, 1)],
        seq |-> [users |-> Len(dummy_users), todos |-> Len(dummy_todos)]]
  ELSE db

(* ---------------------------- db_utils.py ------------------------------ *)
\* What a handler call did: it returned or raised `value`, left the store
\* as `db`, and opened / closed that many connections.
Returned(value, db, opened, closed) ==
  [raised |-> FALSE, value |-> value, db |-> db,
   opened |-> opened, closed |-> closed]

Raised(text, db, opened, closed) ==
  [raised |-> TRUE, value |-> text, db |-> db,
   opened |-> opened, closed |-> closed]

PyDict(d) == [type |-> "dict", v |-> d]
PyList(l) == [type |-> "list", v |-> l]

\* get_db_connection that opens a new, empty database file
get_db_connection_Elsewhere(db) ==
  [exists |-> TRUE, tables |-> <<>>, rows |-> db.rows, seq |-> db.seq]

\* sqlite3.connect creates the file when it is absent
get_db_connection(db) == [db EXCEPT !.exists = TRUE]


\* list_db_tables whose failure result carries no message
list_db_tables_NoMessage(db, fault) ==
  LET conn == get_db_connection(db) IN
  IF fault
  THEN Returned(PyDict([success |-> FALSE, tables |-> <<>>]), conn, 1, 0)
  ELSE Returned(PyDict([success |-> TRUE,
                        message |-> <<"Tables listed successfully.">>,
                        tables |-> conn.tables]),
                conn, 1, 1)

list_db_tables(db, fault) ==
  LET conn == get_db_connection(db) IN
  IF fault
  THEN Returned(PyDict([success |-> FALSE,
                        message |-> <<"Error listing tables: ">> \o FaultText,
                        tables |-> <<>>]),
                conn, 1, 0)
  ELSE Returned(PyDict([success |-> TRUE,
                        message |-> <<"Tables listed successfully.">>,
                        tables |-> conn.tables]),
                conn, 1, 1)

get_table_schema(db, table_name, fault) ==
  LET conn == get_db_connection(db) IN
  IF table_name \in QuotedNames
  THEN Raised(<<"near \"y\": syntax error">>, conn, 1, 0)
  ELSE IF fault
  THEN Raised(FaultText, conn, 1, 0)
  ELSE LET schema_info ==
             IF HasTable(conn, table_name) THEN TableColumns[table_name]
             ELSE <<>>
       IN IF schema_info = <<>>
          THEN Raised(<<"Table '", table_name,
                        "' not found or no schema information.">>, conn, 1, 1)
          ELSE Returned(PyDict([table_name |-> table_name,
                                columns |-> schema_info]), conn, 1, 1)

\* the sqlite3.Error of "SELECT columns FROM table_name [WHERE condition];"
SelectError(db, table_name, columns, condition, fault) ==
  IF condition # <<>> /\ WhereSyntaxError(condition) # <<>>
  THEN WhereSyntaxError(condition)
  ELSE IF ~HasTable(db, table_name) THEN <<"no such table: ", table_name>>
  ELSE IF SelectColumnsError(table_name, columns) # <<>>
  THEN SelectColumnsError(table_name, columns)
  ELSE IF condition # <<>> /\ WhereColumnError(table_name, condition) # <<>>
  THEN WhereColumnError(table_name, condition)
  ELSE IF fault THEN FaultText
  ELSE <<>>

\* SelectRows that returns every row whatever the condition
SelectRows_NoWhere(t, rows, columns, condition) ==
  [i \in 1..Len(rows) |-> Project(rows[i], columns)]

RECURSIVE SelectRows(_, _, _, _)
SelectRows(t, rows, columns, condition) ==
  IF rows = <<>> THEN <<>>
  ELSE (IF condition = <<>> \/ Matches(t, Head(rows), condition)
        THEN <<Project(Head(rows), columns)>> ELSE <<>>)
       \o SelectRows(t, Tail(rows), columns, condition)

query_db_table(db, table_name, columns, condition, fault) ==
  LET conn == get_db_connection(db)
      e == SelectError(conn, table_name, columns, condition, fault)
  IN IF e # <<>>
     THEN Raised(<<"Error querying table '", table_name, "': ">> \o e,
                 conn, 1, 1)
     ELSE Returned(PyList(SelectRows(table_name, conn.rows[table_name],
                                     columns, condition)),
                   conn, 1, 1)

\* the sqlite3.Error of "INSERT INTO table_name (columns) VALUES (?, ...)"
InsertError(db, table_name, data, fault) ==
  IF ~HasTable(db, table_name) THEN <<"no such table: ", table_name>>
  ELSE IF DOMAIN data \ ColumnNames(table_name) # {}
  THEN <<"table ", table_name, " has no column named ",
         CHOOSE c \in DOMAIN data \ ColumnNames(table_name) : TRUE>>
  ELSE IF RequiredColumns[table_name] \ DOMAIN data # {}
  THEN <<"NOT NULL constraint failed: ", table_name, ".",
         CHOOSE c \in RequiredColumns[table_name] \ DOMAIN data : TRUE>>
  ELSE IF /\ table_name = "users"
          /\ \E r \in Range(db.rows.users) : r.email = data.email
  THEN <<"UNIQUE constraint failed: users.email">>
  ELSE IF /\ "id" \in DOMAIN data
          /\ \E r \in Range(db.rows[table_name]) : r.id = data.id
  THEN <<"UNIQUE constraint failed: ", table_name, ".id">>
  ELSE IF fault THEN FaultText
  ELSE <<>>

\* the row the INSERT stores: given values, generated id, column defaults
NewRow(db, table_name, data) ==
  [c \in ColumnNames(table_name) |->
     IF c \in DOMAIN data THEN data[c]
     ELSE IF c = "id" THEN NextRowId(db, table_name)
     ELSE 0]

\* insert_data that builds and runs the statement whatever the data
insert_data_NoGuard(db, table_name, data, fault) ==
  LET conn == get_db_connection(db)
      e == IF DOMAIN data = {} THEN <<"near \")\": syntax error">>
           ELSE InsertError(conn, table_name, data, fault)
  IN IF e # <<>>
     THEN Returned(PyDict([success |-> FALSE,
                           message |-> <<"Error inserting data into table '",
                                         table_name, "': ">> \o e]),
                   conn, 1, 1)
     ELSE LET row == NewRow(conn, table_name, data)
          IN Returned(
               PyDict([success |-> TRUE,
                       message |-> <<"Data inserted successfully. Row ID: ",
                                     ToString(row.id)>>,
                       row_id |-> row.id]),
               [conn EXCEPT
                  !.rows[table_name] = Append(@, row),
                  !.seq[table_name] = Max(@, row.id)],
               1, 1)

\* insert_data whose failure message does not name the table
insert_data_AnonymousError(db, table_name, data, fault) ==
  IF DOMAIN data = {}
  THEN Returned(PyDict([success |-> FALSE,
                        message |-> <<"No data provided for insertion.">>]),
                db, 0, 0)
  ELSE
    LET conn == get_db_connection(db)
        e == InsertError(conn, table_name, data, fault)
    IN IF e # <<>>
       THEN Returned(PyDict([success |-> FALSE,
                             message |-> <<"Error inserting data: ">> \o e]),
                     conn, 1, 1)
       ELSE LET row == NewRow(conn, table_name, data)
            IN Returned(
                 PyDict([success |-> TRUE,
                         message |-> <<"Data inserted successfully. Row ID: ",
                                       ToString(row.id)>>,
                         row_id |-> row.id]),
                 [conn EXCEPT
                    !.rows[table_name] = Append(@, row),
                    !.seq[table_name] = Max(@, row.id)],
                 1, 1)

insert_data(db, table_name, data, fault) ==
  IF DOMAIN data = {}
  THEN Returned(PyDict([success |-> FALSE,
                        message |-> <<"No data provided for insertion.">>]),
                db, 0, 0)
  ELSE
    LET conn == get_db_connection(db)
        e == InsertError(conn, table_name, data, fault)
    IN IF e # <<>>
       THEN Returned(PyDict([success |-> FALSE,
                             message |-> <<"Error inserting data into table '",
                                           table_name, "': ">> \o e]),
                     conn, 1, 1)
       ELSE LET row == NewRow(conn, table_name, data)
                last_row_id == row.id
            IN Returned(
                 PyDict([success |-> TRUE,
                         message |-> <<"Data inserted successfully. Row ID: ",
                                       ToString(last_row_id)>>,
                         row_id |-> last_row_id]),
                 [conn EXCEPT
                    !.rows[table_name] = Append(@, row),
                    !.seq[table_name] = Max(@, last_row_id)],
                 1, 1)

\* the sqlite3.Error of "DELETE FROM table_name WHERE condition"
DeleteError(db, table_name, condition, fault) ==
  IF WhereSyntaxError(condition) # <<>> THEN WhereSyntaxError(condition)
  ELSE IF ~HasTable(db, table_name) THEN <<"no such table: ", table_name>>
  ELSE IF WhereColumnError(table_name, condition) # <<>>
  THEN WhereColumnError(table_name, condition)
  ELSE IF fault THEN FaultText
  ELSE <<>>

\* the guard of delete_data
BlankCondition(condition) == condition = <<>> \/ Strip(condition) = <<>>

\* delete_data whose guard tests the condition without stripping it
delete_data_NoStrip(db, table_name, condition, fault) ==
  IF condition = <<>>
  THEN Returned(
         PyDict([success |-> FALSE,
                 message |-> <<"Deletion condition cannot be empty. This is a safety measure to prevent accidental deletion of all rows.">>]),
         db, 0, 0)
  ELSE
    LET conn == get_db_connection(db)
        e == DeleteError(conn, table_name, condition, fault)
    IN IF e # <<>>
       THEN Returned(PyDict([success |-> FALSE,
                             message |-> <<"Error deleting data from table '",
                                           table_name, "': ">> \o e]),
                     conn, 1, 1)
       ELSE LET kept == SelectSeq(conn.rows[table_name],
                           LAMBDA r : ~Matches(table_name, r, condition))
                rows_deleted == Len(conn.rows[table_name]) - Len(kept)
            IN Returned(
                 PyDict([success |-> TRUE,
                         message |-> <<ToString(rows_deleted),
                                       " row(s) deleted successfully from table '",
                                       table_name, "'.">>,
                         rows_deleted |-> rows_deleted]),
                 [conn EXCEPT !.rows[table_name] = kept],
                 1, 1)

\* delete_data whose statement has lost its WHERE clause
delete_data_NoWhere(db, table_name, condition, fault) ==
  IF BlankCondition(condition)
  THEN Returned(
         PyDict([success |-> FALSE,
                 message |-> <<"Deletion condition cannot be empty. This is a safety measure to prevent accidental deletion of all rows.">>]),
         db, 0, 0)
  ELSE
    LET conn == get_db_connection(db)
        e == DeleteError(conn, table_name, condition, fault)
    IN IF e # <<>>
       THEN Returned(PyDict([success |-> FALSE,
                             message |-> <<"Error deleting data from table '",
                                           table_name, "': ">> \o e]),
                     conn, 1, 1)
       ELSE LET rows_deleted == Len(conn.rows[table_name])
            IN Returned(
                 PyDict([success |-> TRUE,
                         message |-> <<ToString(rows_deleted),
                                       " row(s) deleted successfully from table '",
                                       table_name, "'.">>,
                         rows_deleted |-> rows_deleted]),
                 [conn EXCEPT !.rows[table_name] = <<>>],
                 1, 1)

delete_data(db, table_name, condition, fault) ==
  IF BlankCondition(condition)
  THEN Returned(
         PyDict([success |-> FALSE,
                 message |-> <<"Deletion condition cannot be empty. This is a safety measure to prevent accidental deletion of all rows.">>]),
         db, 0, 0)
  ELSE
    LET conn == get_db_connection(db)
        e == DeleteError(conn, table_name, condition, fault)
    IN IF e # <<>>
       THEN Returned(PyDict([success |-> FALSE,
                             message |-> <<"Error deleting data from table '",
                                           table_name, "': ">> \o e]),
                     conn, 1, 1)
       ELSE LET kept == SelectSeq(conn.rows[table_name],
                           LAMBDA r : ~Matches(table_name, r, condition))
                rows_deleted == Len(conn.rows[table_name]) - Len(kept)
            IN Returned(
                 PyDict([success |-> TRUE,
                         message |-> <<ToString(rows_deleted),
                                       " row(s) deleted successfully from table '",
                                       table_name, "'.">>,
                         rows_deleted |-> rows_deleted]),
                 [conn EXCEPT !.rows[table_name] = kept],
                 1, 1)

(* ----------------------------- server.py ------------------------------- *)
VARIABLES
  phase,         \* "NotStarted" | "AwaitingHandshake" | "Ready" | "Exited"
  db,            \* the database file adk_local_mcp.db
  ADK_DB_TOOLS,  \* the registry: ordered entries [key, name, func]
  openConns,     \* store connections opened and not closed
  runs,          \* launches of the process so far
  served,        \* requests received over all runs
  nReceived,     \* requests received on this connection
  nResponses,    \* responses written on this connection
  request,       \* the last request received
  response,      \* the last response written
  handlerRuns,   \* handler functions invoked on this connection
  handled,       \* what the handler function of the last request did
  escapes,       \* exceptions that left a request handler of this connection
  listings,      \* the tool names of each list_tools response, in order
  exitStatus,    \* exit status of the last run, -1 while none has ended
  exitLog        \* what the entry point logged when the run ended

vars == <<phase, db, ADK_DB_TOOLS, openConns, runs, served, nReceived,
          nResponses, request, response, handlerRuns, handled, escapes,
          listings, exitStatus, exitLog>>

\* FunctionTool(func=f): the tool is named after the function it wraps
FunctionTool(key, func) == [key |-> key, name |-> func, func |-> func]

Registry ==
  << FunctionTool("list_db_tables", "list_db_tables"),
     FunctionTool("get_table_schema", "get_table_schema"),
     FunctionTool("query_db_table", "query_db_table"),
     FunctionTool("insert_data", "insert_data"),
     FunctionTool("delete_data", "delete_data") >>

Keys(reg) == [i \in 1..Len(reg) |-> reg[i].key]

Lookup(reg, name) == CHOOSE tool \in Range(reg) : tool.key = name

\* json.dumps: the text is the value laid out either indented or compact;
\* bytes cannot be encoded
JsonSerializable(value) ==
  \/ value.type = "dict"
  \/ \A r \in Range(value.v) : BlobColumn \notin DOMAIN r

Dumps(value, layout) == [layout |-> layout, obj |-> value]

Loads(text) == text.obj

TextContent(text) == [type |-> "text", text |-> text]

NoRequest == [id |-> 0, method |-> "none", name |-> "", arguments |-> <<>>]

NoResponse == [id |-> 0, method |-> "none", content |-> <<>>, tools |-> <<>>]

\* ListLoop that takes each entry out of the registry as it visits it
ListLoop_Consume(reg) ==
  [reg |-> <<>>, names |-> [i \in 1..Len(reg) |-> reg[i].name]]

\* list_mcp_tools(): the registry after the loop, and the advertised names
RECURSIVE ListLoop(_)
ListLoop(reg) ==
  IF reg = <<>> THEN [reg |-> <<>>, names |-> <<>>]
  ELSE LET adk_tool_instance ==
             IF Head(reg).name = ""
             THEN [Head(reg) EXCEPT !.name = Head(reg).key]
             ELSE Head(reg)
           rest == ListLoop(Tail(reg))
       IN [reg |-> <<adk_tool_instance>> \o rest.reg,
           names |-> <<adk_tool_instance.name>> \o rest.names]

\* list_mcp_tools that puts each tool in front of the list it builds
list_mcp_tools_Prepend(reg) ==
  [reg |-> ListLoop(reg).reg,
   names |-> [i \in 1..Len(reg) |-> ListLoop(reg).names[Len(reg) + 1 - i]]]

list_mcp_tools(reg) == ListLoop(reg)

\* adk_tool_instance.run_async(args=arguments): the wrapped function's call
run_async(func, store, arguments, fault) ==
  CASE func = "list_db_tables" -> list_db_tables(store, fault)
    [] func = "get_table_schema" ->
         get_table_schema(store, arguments.table_name, fault)
    [] func = "query_db_table" ->
         query_db_table(store, arguments.table_name, arguments.columns,
                        arguments.condition, fault)
    [] func = "insert_data" ->
         insert_data(store, arguments.table_name, arguments.data, fault)
    [] func = "delete_data" ->
         delete_data(store, arguments.table_name, arguments.condition, fault)

\* HandlerFailure with the cause left out of the message
HandlerFailure_NoCause(name, cause) ==
  LET error_payload ==
        [success |-> FALSE,
         message |-> <<"Failed to execute tool '", name, "'">>]
  IN <<TextContent(Dumps(PyDict(error_payload), "compact"))>>

\* the except branch of call_mcp_tool
HandlerFailure(name, cause) ==
  LET error_payload ==
        [success |-> FALSE,
         message |-> <<"Failed to execute tool '", name, "': ">> \o cause]
  IN <<TextContent(Dumps(PyDict(error_payload), "compact"))>>

\* NotImplemented with the requested name left out of the message
NotImplemented_NoName(name) ==
  LET error_payload ==
        [success |-> FALSE,
         message |-> <<"Tool not implemented by this server.">>]
  IN <<TextContent(Dumps(PyDict(error_payload), "compact"))>>

\* the else branch of call_mcp_tool
NotImplemented(name) ==
  LET error_payload ==
        [success |-> FALSE,
         message |-> <<"Tool '", name, "' not implemented by this server.">>]
  IN <<TextContent(Dumps(PyDict(error_payload), "compact"))>>

\* no handler function was called
NoCall ==
  [func |-> "none", raised |-> FALSE, value |-> <<>>,
   opened |-> 0, closed |-> 0]

\* what the handler function of a tool did, without the store
Outcome(func, h) ==
  [func |-> func, raised |-> h.raised, value |-> h.value,
   opened |-> h.opened, closed |-> h.closed]

\* the exception the try block of call_mcp_tool ends with, <<>> if none:
\* the one the tool raised, or the TypeError of json.dumps
TryError(h) ==
  IF h.raised THEN h.value
  ELSE IF ~JsonSerializable(h.value)
  THEN <<"Object of type bytes is not JSON serializable">>
  ELSE <<>>

\* call_mcp_tool with json.dumps of the tool's response after the try block,
\* so that its TypeError is not caught
call_mcp_tool_DumpsAfterTry(reg, store, name, arguments, fault) ==
  IF name \in Range(Keys(reg))
  THEN LET adk_tool_instance == Lookup(reg, name)
           adk_tool_response ==
             run_async(adk_tool_instance.func, store, arguments, fault)
       IN [escaped |-> ~adk_tool_response.raised
                       /\ ~JsonSerializable(adk_tool_response.value),
           content |->
             IF adk_tool_response.raised
             THEN HandlerFailure(name, adk_tool_response.value)
             ELSE <<TextContent(Dumps(adk_tool_response.value, "indent2"))>>,
           db |-> adk_tool_response.db,
           handler |-> Outcome(adk_tool_instance.func, adk_tool_response)]
  ELSE [escaped |-> FALSE, content |-> NotImplemented(name),
        db |-> store, handler |-> NoCall]

\* call_mcp_tool(name, arguments): the content it returns (escaped: it
\* raised instead), the store it leaves and what the handler function did
call_mcp_tool(reg, store, name, arguments, fault) ==
  IF name \in Range(Keys(reg))
  THEN LET adk_tool_instance == Lookup(reg, name)
           adk_tool_response ==
             run_async(adk_tool_instance.func, store, arguments, fault)
           e == TryError(adk_tool_response)
       IN [escaped |-> FALSE,
           content |->
             IF e = <<>>
             THEN <<TextContent(Dumps(adk_tool_response.value, "indent2"))>>
             ELSE HandlerFailure(name, e),
           db |-> adk_tool_response.db,
           handler |-> Outcome(adk_tool_instance.func, adk_tool_response)]
  ELSE [escaped |-> FALSE, content |-> NotImplemented(name),
        db |-> store, handler |-> NoCall]

(* ------------------------- the requests tried -------------------------- *)
TableInputs == {"users", "todos", "nosuch"}

CondInputs ==
  { <<>>, <<" ", "\n">>, <<"completed", "=", "0">>,
    <<" ", "id", "=", "1", " ">>, <<"id", "=">> }

QueryInputs ==
  [table_name : TableInputs, columns : {"*"}, condition : CondInputs]
    \cup [table_name : {"todos"}, columns : {"nocol", BlobColumn},
          condition : {<<>>}]

DataInputs ==
  { <<>>,
    [username |-> "u3", email |-> "u3@example.com"],
    [username |-> "u4", email |-> "user1@example.com"],
    [user_id |-> 2, task |-> "Water plants"] }

NameInputs ==
  {"list_db_tables", "get_table_schema", "query_db_table", "insert_data",
   "delete_data", "nonexistent_tool", ""}

\* an I/O fault can hit the statement a registered tool executes
FaultInputs(name) ==
  IF name \in Range(Keys(Registry)) THEN BOOLEAN ELSE {FALSE}

ArgumentInputs(name) ==
  CASE name = "list_db_tables" -> {[dummy_param |-> "x"]}
    [] name = "get_table_schema" ->
         {[table_name |-> t] : t \in TableInputs \cup QuotedNames}
    [] name = "query_db_table" -> QueryInputs
    [] name = "insert_data" -> [table_name : TableInputs, data : DataInputs]
    [] name = "delete_data" ->
         [table_name : TableInputs, condition : CondInputs]
    [] OTHER -> {<<>>}

(* ------------------------------ actions -------------------------------- *)
Init ==
  /\ phase = "NotStarted"
  /\ db = NoDatabase
  /\ ADK_DB_TOOLS = <<>>
  /\ openConns = 0
  /\ runs = 0
  /\ served = 0
  /\ nReceived = 0
  /\ nResponses = 0
  /\ request = NoRequest
  /\ response = NoResponse
  /\ handlerRuns = 0
  /\ handled = NoCall
  /\ escapes = 0
  /\ listings = <<>>
  /\ exitStatus = -1
  /\ exitLog = "none"

\* python server.py: the module body up to the entry point
Launch ==
  /\ phase \in {"NotStarted", "Exited"}
  /\ runs < MaxRuns
  /\ runs' = runs + 1
  /\ db' = create_database(db)
  /\ ADK_DB_TOOLS' = Registry
  /\ phase' = "AwaitingHandshake"
  /\ openConns' = 0
  /\ nReceived' = 0
  /\ nResponses' = 0
  /\ request' = NoRequest
  /\ response' = NoResponse
  /\ handlerRuns' = 0
  /\ handled' = NoCall
  /\ escapes' = 0
  /\ listings' = <<>>
  /\ UNCHANGED <<served, exitStatus, exitLog>>

\* app.run: the initialize exchange succeeds
Initialize ==
  /\ phase = "AwaitingHandshake"
  /\ phase' = "Ready"
  /\ UNCHANGED <<db, ADK_DB_TOOLS, openConns, runs, served, nReceived,
                 nResponses, request, response, handlerRuns, handled,
                 escapes, listings, exitStatus, exitLog>>

\* the entry point: whatever ends asyncio.run, the process ends with status
\* 0; the connection and everything the process held are gone
Exit(log) ==
  /\ phase' = "Exited"
  /\ exitStatus' = 0
  /\ exitLog' = log
  /\ ADK_DB_TOOLS' = <<>>
  /\ openConns' = 0
  /\ nReceived' = 0
  /\ nResponses' = 0
  /\ request' = NoRequest
  /\ response' = NoResponse
  /\ handlerRuns' = 0
  /\ handled' = NoCall
  /\ escapes' = 0
  /\ listings' = <<>>
  /\ UNCHANGED <<db, runs, served>>

\* app.run raises: the handshake or the transport failed
TransportFails ==
  /\ phase \in {"AwaitingHandshake", "Ready"}
  /\ Exit("critical")

\* app.run returns: the client closed the stream
EndOfStream ==
  /\ phase \in {"AwaitingHandshake", "Ready"}
  /\ Exit("finished")

\* KeyboardInterrupt
Interrupt ==
  /\ phase \in {"AwaitingHandshake", "Ready"}
  /\ Exit("stopped by user")

\* a list_tools request is received and answered
ListTools ==
  /\ phase = "Ready"
  /\ served < MaxRequests
  /\ \E l \in {list_mcp_tools(ADK_DB_TOOLS)} :
       /\ ADK_DB_TOOLS' = l.reg
       /\ request' = [id |-> nReceived + 1, method |-> "list_tools",
                      name |-> "", arguments |-> <<>>]
       /\ response' = [id |-> nReceived + 1, method |-> "list_tools",
                       content |-> <<>>, tools |-> l.names]
       /\ listings' = Append(listings, l.names)
  /\ served' = served + 1
  /\ nReceived' = nReceived + 1
  /\ nResponses' = nResponses + 1
  /\ handled' = NoCall
  /\ UNCHANGED <<phase, db, openConns, runs, handlerRuns, escapes,
                 exitStatus, exitLog>>

\* A connection the handler left unclosed is closed by the interpreter when
\* the object is reclaimed, which may or may not have happened by the time
\* the response is written.
ReclaimInputs(leaked) == IF leaked > 0 THEN BOOLEAN ELSE {FALSE}

\* a call_tool request is received, executed and answered
CallTool(name, arguments, fault) ==
  /\ phase = "Ready"
  /\ served < MaxRequests
  /\ \E r \in {call_mcp_tool(ADK_DB_TOOLS, db, name, arguments, fault)} :
     LET leaked == r.handler.opened - r.handler.closed
     IN /\ request' = [id |-> nReceived + 1, method |-> "call_tool",
                       name |-> name, arguments |-> arguments]
        /\ IF r.escaped
           THEN /\ escapes' = escapes + 1
                /\ UNCHANGED <<response, nResponses>>
           ELSE /\ response' = [id |-> nReceived + 1, method |-> "call_tool",
                                content |-> r.content, tools |-> <<>>]
                /\ nResponses' = nResponses + 1
                /\ UNCHANGED escapes
        /\ db' = r.db
        /\ \E reclaimed \in ReclaimInputs(leaked) :
             openConns' = openConns + (IF reclaimed THEN 0 ELSE leaked)
        /\ handled' = r.handler
        /\ handlerRuns' = handlerRuns + (IF r.handler.func = "none" THEN 0 ELSE 1)
  /\ served' = served + 1
  /\ nReceived' = nReceived + 1
  /\ UNCHANGED <<phase, ADK_DB_TOOLS, runs, listings, exitStatus, exitLog>>

Next ==
  \/ Launch
  \/ Initialize
  \/ TransportFails
  \/ EndOfStream
  \/ Interrupt
  \/ ListTools
  \/ \E name \in NameInputs : \E arguments \in ArgumentInputs(name) :
       \E fault \in FaultInputs(name) : CallTool(name, arguments, fault)

Spec == Init /\ [][Next]_vars

(* ------------------------------ claims --------------------------------- *)
\* the decoded result a call_tool response carries
Payload(resp) == Loads(resp.content[1].text)

RegistryKeys == Range(Keys(Registry))

\* this step received a call_tool request
CallStep ==
  nReceived' = nReceived + 1 /\ request'.method = "call_tool"

\* C1: every call_tool request the dispatch loop receives produces exactly
\* one response for that request (the response count follows the request
\* count, the response carries the request's id and one content block), and
\* no exception leaves call_mcp_tool.
C1_ExactlyOneResponse ==
  [][CallStep =>
       /\ escapes' = escapes
       /\ nResponses' = nResponses + 1
       /\ response'.id = request'.id
       /\ response'.method = "call_tool"
       /\ Len(response'.content) = 1]_vars

\* a query whose rows cannot be JSON-encoded was answered with a failure
C1_Witness ==
  /\ request.method = "call_tool"
  /\ request.name = "query_db_table"
  /\ request.arguments.columns = BlobColumn
  /\ ~handled.raised
  /\ response.id = request.id
  /\ nResponses = nReceived
  /\ Payload(response).v.success = FALSE

\* C2: a call_tool request naming a tool that is no key of the registry is
\* answered with success = false and the message "Tool '<name>' not
\* implemented by this server." carrying the requested name; no handler runs,
\* the store and its connections are untouched, and the loop stays Ready.
C2_UnknownTool ==
  [][(CallStep /\ request'.name \notin RegistryKeys) =>
       /\ response'.id = request'.id
       /\ Payload(response') =
            PyDict([success |-> FALSE,
                    message |-> <<"Tool '", request'.name,
                                  "' not implemented by this server.">>])
       /\ handled'.func = "none"
       /\ handled'.opened = 0
       /\ handlerRuns' = handlerRuns
       /\ db' = db
       /\ openConns' = openConns
       /\ phase' = "Ready"]_vars

\* an unknown tool was requested as the second request of a connection
C2_Witness ==
  /\ phase = "Ready"
  /\ request.method = "call_tool"
  /\ request.name = "nonexistent_tool"
  /\ request.id = 2
  /\ response.id = 2
  /\ Payload(response).v.success = FALSE

ToolStep(name) == CallStep /\ request'.name = name

\* C4: delete_data with an empty or whitespace-only condition returns
\* success = false, opens no connection and leaves the store as it was, for
\* every table name and in every reachable store state.
C4_DeleteGuard ==
  [][(ToolStep("delete_data")
        /\ Strip(request'.arguments.condition) = <<>>) =>
       /\ Payload(response').v.success = FALSE
       /\ handled'.opened = 0
       /\ openConns' = openConns
       /\ db' = db]_vars

\* a whitespace-only condition was refused on a table that holds rows
C4_Witness ==
  /\ request.method = "call_tool"
  /\ request.name = "delete_data"
  /\ request.arguments.condition = <<" ", "\n">>
  /\ request.arguments.table_name = "todos"
  /\ Len(db.rows.todos) > 0
  /\ response.id = request.id
  /\ Payload(response).v.success = FALSE

\* C5: insert_data with an empty data mapping returns success = false
\* without opening a connection or executing a statement; the store is
\* unchanged.
C5_InsertEmpty ==
  [][(ToolStep("insert_data") /\ DOMAIN request'.arguments.data = {}) =>
       /\ Payload(response').v.success = FALSE
       /\ handled'.opened = 0
       /\ openConns' = openConns
       /\ db' = db]_vars

\* an empty mapping was refused
C5_Witness ==
  /\ request.method = "call_tool"
  /\ request.name = "insert_data"
  /\ DOMAIN request.arguments.data = {}
  /\ request.arguments.table_name = "users"
  /\ response.id = request.id
  /\ Payload(response).v.success = FALSE
  /\ handled.func = "insert_data"

\* the uniform envelope: a mapping with a boolean success and a message
IsEnvelope(p) ==
  /\ p.type = "dict"
  /\ {"success", "message"} \subseteq DOMAIN p.v
  /\ p.v.success \in BOOLEAN

\* the last request was a call of a registered tool and has been answered
Answered ==
  /\ request.method = "call_tool"
  /\ request.name \in RegistryKeys
  /\ response.id = request.id

\* the handler function returned a value that call_mcp_tool could encode
ToolSucceeded == ~handled.raised /\ JsonSerializable(handled.value)

\* C6 as stated: for each of the five registered tools and every outcome,
\* the result carried in the call_tool response is a mapping with a boolean
\* success field and a message field.
C6_UniformEnvelope == Answered => IsEnvelope(Payload(response))

\* C6 amended: list_db_tables, insert_data and delete_data always answer
\* with the envelope, and so do get_table_schema and query_db_table when the
\* call fails; when these two succeed the response carries the value they
\* return ({table_name, columns}, a list of rows), which is no envelope.
C6_EnvelopeButSchemaAndQuery ==
  Answered =>
    IF request.name \in {"get_table_schema", "query_db_table"}
       /\ ToolSucceeded
    THEN /\ Payload(response) = handled.value
         /\ ~IsEnvelope(Payload(response))
    ELSE IsEnvelope(Payload(response))

\* list_db_tables failed in the backend and answered with the envelope
C6_Witness ==
  /\ Answered
  /\ request.name = "list_db_tables"
  /\ IsEnvelope(Payload(response))
  /\ Payload(response).v.success = FALSE

\* this step received a list_tools request
ListStep ==
  nReceived' = nReceived + 1 /\ request'.method = "list_tools"

C10_ConnectionsReleased ==
  /\ handled.closed = handled.opened
  /\ phase = "Ready" => openConns = 0

\* the process is running
Running == phase \in {"AwaitingHandshake", "Ready"}

\* C11: while the process runs, the registry is the one built at start: the
\* same five keys in the same order, each bound to the same function and
\* carrying the same tool name, whatever requests have been served.
C11_RegistryFixed == Running => ADK_DB_TOOLS = Registry

\* the registry after a list_tools and a tool call on one connection
C11_Witness ==
  /\ phase = "Ready"
  /\ nReceived = 2
  /\ Len(listings) = 1
  /\ handlerRuns = 1
  /\ Len(ADK_DB_TOOLS) = 5

\* C12 as stated: the process ends with status 0 after a client disconnect
\* or an interrupt, and with a non-zero status, logged, when a transport or
\* handshake failure escapes the run loop, and in no other case.
C12_ExitStatus ==
  phase = "Exited" =>
    /\ exitLog \in {"finished", "stopped by user"} => exitStatus = 0
    /\ exitLog = "critical" => exitStatus # 0
    /\ exitStatus # 0 => exitLog = "critical"

\* this step started the server process
LaunchStep == runs' = runs + 1

\* the todos of a store that are not completed
OpenTodos(store) == {i \in 1..Len(store.rows.todos) :
                       store.rows.todos[i].completed = 0}

\* the last request is the first one a fresh store has served, and it is
\* query_db_table(table_name="todos", columns="*", condition="completed = 0")
FirstQueryOfOpenTodos ==
  /\ runs = 1
  /\ request.id = 1
  /\ request.method = "call_tool"
  /\ request.name = "query_db_table"
  /\ request.arguments.table_name = "todos"
  /\ request.arguments.columns = "*"
  /\ SqlTokens(request.arguments.condition) = <<"completed", "=", "0">>

\* C14: after create_database has run against a store that did not exist,
\* the store holds the tables users and todos with exactly 2 users and 3
\* todos, 2 of them with completed = 0, and the query for the todos with
\* completed = 0 as the first request is answered with exactly 2 rows.
C14_FreshStoreSeeded ==
  /\ (runs = 1 /\ nReceived = 0 /\ Running) =>
       /\ {"users", "todos"} \subseteq Range(db.tables)
       /\ Len(db.rows.users) = 2
       /\ Len(db.rows.todos) = 3
       /\ Cardinality(OpenTodos(db)) = 2
  /\ (FirstQueryOfOpenTodos /\ response.id = 1 /\ ~handled.raised) =>
       /\ Payload(response).type = "list"
       /\ Len(Payload(response).v) = 2
       /\ \A i \in 1..2 : Payload(response).v[i].completed = 0

\* the query was the first request on the fresh store and was answered
C14_Witness ==
  /\ FirstQueryOfOpenTodos
  /\ response.id = 1
  /\ ~handled.raised
  /\ Len(Payload(response).v) = 2

\* C15: when the server starts and the store already exists,
\* create_database changes nothing: tables, rows and id counters are the
\* ones the earlier run left, whatever was inserted or deleted.
C15_ExistingStoreUntouched ==
  [][(LaunchStep /\ db.exists) => db' = db]_vars

\* the server was started again on a store whose seed rows had been changed
C15_Witness ==
  /\ runs = 2
  /\ phase = "AwaitingHandshake"
  /\ Len(db.rows.users) = 1
  /\ Len(db.rows.todos) = 4

\* the ids of the rows of a table
Ids(rows) == {rows[i].id : i \in 1..Len(rows)}

\* the store as create_database leaves it when the file was absent
FreshStore == create_database(NoDatabase)

\* C16: a successful insert_data appends exactly one row to the named table
\* and returns row_id equal to the id of that row, an id no row of the table
\* had; the other table is untouched. On the freshly seeded store an insert
\* into users returns row_id 3, and the query on users that follows it
\* returns 3 rows.
C16_InsertAddsOneRow ==
  [][/\ (ToolStep("insert_data") /\ Payload(response').v.success) =>
          LET t == request'.arguments.table_name
              new == db'.rows[t]
          IN /\ Len(new) = Len(db.rows[t]) + 1
             /\ SubSeq(new, 1, Len(db.rows[t])) = db.rows[t]
             /\ new[Len(new)].id = Payload(response').v.row_id
             /\ Payload(response').v.row_id \notin Ids(db.rows[t])
             /\ \A u \in DOMAIN db.rows \ {t} : db'.rows[u] = db.rows[u]
             /\ (db = FreshStore /\ t = "users") =>
                  Payload(response').v.row_id = 3
     /\ (/\ ToolStep("query_db_table")
         /\ request'.arguments.table_name = "users"
         /\ request'.arguments.columns = "*"
         /\ request'.arguments.condition = <<>>
         /\ ~handled'.raised
         /\ runs = 1 /\ request.id = 1 /\ request.name = "insert_data"
         /\ request.arguments.table_name = "users"
         /\ Payload(response).v.success) =>
          Len(Payload(response').v) = 3]_vars

\* a user was inserted into the fresh store and the users were queried next
C16_Witness ==
  /\ runs = 1
  /\ request.id = 2
  /\ request.name = "query_db_table"
  /\ request.arguments.table_name = "users"
  /\ request.arguments.condition = <<>>
  /\ ~handled.raised
  /\ Len(Payload(response).v) = 3
  /\ db.rows.users[3].id = 3
  /\ db.rows.users[3].username = "u3"

\* the try block of the last list_db_tables call ran to its conn.close()
ListedTables(req, h) ==
  /\ req.method = "call_tool"
  /\ req.name = "list_db_tables"
  /\ h.closed = h.opened

\* C17: list_db_tables never changes the store, and a list_db_tables call
\* that directly follows another one returns the same result (success flag,
\* message and ordered table names), provided no backend error hits either
\* call.
C17_ListTablesIdempotent ==
  [][ToolStep("list_db_tables") =>
       /\ db' = db
       /\ (ListedTables(request, handled) /\ ListedTables(request', handled'))
            => Payload(response') = Payload(response)]_vars

\* list_db_tables was answered twice in a row
C17_Witness ==
  /\ ListedTables(request, handled)
  /\ request.id = 2
  /\ handlerRuns = 2
  /\ db = FreshStore
  /\ Payload(response).v.tables = <<"users", "sqlite_sequence", "todos">>

\* the text block of a call_tool response
ResponseText(resp) == resp.content[1].text

\* C18 as stated: every call_tool response, on the success path, on the
\* handler-error path and on the unknown-tool path, has exactly one text
\* block, and the block holds the JSON-encoded result laid out with 2-space
\* indentation.
C18_OneIndentedTextBlock ==
  (request.method = "call_tool" /\ response.id = request.id) =>
    /\ Len(response.content) = 1
    /\ response.content[1].type = "text"
    /\ ResponseText(response).layout = "indent2"

\* this step received an insert_data or delete_data call that got as far as
\* the backend and came back with success = false
BackendFailureStep ==
  /\ CallStep
  /\ request'.name \in {"insert_data", "delete_data"}
  /\ handled'.opened = 1
  /\ ~Payload(response').v.success

\* C19: when insert_data or delete_data with non-empty arguments fails in
\* the backend, the result has success = false and a message that names the
\* table, and the store is exactly as it was before the call.
C19_BackendFailureRollsBack ==
  [][BackendFailureStep =>
       /\ ~handled'.raised
       /\ request'.arguments.table_name
            \in Range(Payload(response').v.message)
       /\ db' = db
       /\ handled'.closed = 1]_vars

\* an insert that violates the unique email of users was refused
C19_Witness ==
  /\ request.method = "call_tool"
  /\ request.name = "insert_data"
  /\ request.arguments.table_name = "users"
  /\ request.arguments.data = [username |-> "u4", email |-> "user1@example.com"]
  /\ Payload(response).v.message[4] = "UNIQUE constraint failed: users.email"
  /\ ~Payload(response).v.success

\* this step received a delete_data call that came back with success = true
DeleteSucceededStep ==
  ToolStep("delete_data") /\ Payload(response').v.success

\* C20: a successful delete_data removes from the named table exactly the
\* rows that satisfy the condition, returns their number as rows_deleted and
\* leaves the other rows of the table, in their order, and every other
\* table as they were.
C20_DeleteRemovesMatches ==
  [][DeleteSucceededStep =>
       LET t == request'.arguments.table_name
           cond == request'.arguments.condition
           old == db.rows[t]
           new == db'.rows[t]
           gone == {i \in 1..Len(old) : Matches(t, old[i], cond)}
       IN /\ Strip(cond) # <<>>
          /\ Range(new) = {old[i] : i \in (1..Len(old)) \ gone}
          /\ Len(new) = Len(old) - Cardinality(gone)
          /\ Payload(response').v.rows_deleted = Cardinality(gone)
          /\ \A i, j \in 1..Len(new) : i < j => new[i].id < new[j].id
          /\ \A u \in DOMAIN db.rows \ {t} : db'.rows[u] = db.rows[u]
          /\ db'.tables = db.tables]_vars

\* the two open todos were deleted and the completed one was kept
C20_Witness ==
  /\ request.method = "call_tool"
  /\ request.name = "delete_data"
  /\ request.arguments.table_name = "todos"
  /\ Payload(response).v.success
  /\ Payload(response).v.rows_deleted = 2
  /\ Len(db.rows.todos) = 1
  /\ db.rows.todos[1].completed = 1
  /\ Len(db.rows.users) = 2

====
